---- MODULE Spec2Model ----
(***************************************************************************)
(* The query-intent parser (QueryParser, src/voice_query_system.py) and    *)
(* the query result cache (QueryCache, src/query_cache.py) of Sport_Data,  *)
(* with the callers that drive them (VoiceQuerySystem.process_query_text   *)
(* and the cache routes of src/voice_web_app.py).                          *)
(*                                                                         *)
(* Representation.  A Python str that the parser scans is the sequence of  *)
(* its code points. A Python dict is the sequence of its <<key, value>>    *)
(* pairs in insertion order (Dict operators below), except the top level   *)
(* of cache_data, whose order nothing reads: it is a function from its     *)
(* keys. None is the string "None"; no text that the model feeds to the    *)
(* program is that four-letter string. A timestamp written by              *)
(* datetime.now().isoformat() is [iso |-> day]; time is counted in days.   *)
(* A confidence is counted in tenths (0.3 is 3). QueryParser's four tables *)
(* are built by __init__ and assigned nowhere else: they are definitions.  *)
(***************************************************************************)
EXTENDS Integers, Sequences, FiniteSets, TLC

VARIABLES
    cache_data,   \* QueryCache.cache_data, the in-memory document
    cache_file,   \* the content of QueryCache.cache_file on disk
    now,          \* the wall clock, in days
    call,         \* the last call made to the program and what it returned
    threads       \* where each request worker stands in the call it executes

vars == <<cache_data, cache_file, now, call, threads>>

None == "None"

-----------------------------------------------------------------------------
(* Python dict as a sequence of <<key, value>> pairs, keys unique.          *)

DictKeys(d) == {d[i][1] : i \in 1..Len(d)}

DictHas(d, k) == \E i \in 1..Len(d) : d[i][1] = k

DictGet(d, k) == d[CHOOSE i \in 1..Len(d) : d[i][1] = k][2]

\* d.setdefault(k, v) in the place of d[k] = v: an existing key keeps its value.
DictPutIfAbsent(d, k, v) ==
    IF DictHas(d, k) THEN d ELSE Append(d, <<k, v>>)

\* d[k] = v: an existing key keeps its place, a new key goes last.
DictPut(d, k, v) ==
    IF DictHas(d, k)
    THEN [i \in 1..Len(d) |-> IF d[i][1] = k THEN <<k, v>> ELSE d[i]]
    ELSE Append(d, <<k, v>>)

\* del d[k]
DictDel(d, k) == SelectSeq(d, LAMBDA kv : kv[1] # k)

-----------------------------------------------------------------------------
(* QueryParser                                                              *)

\* sport_keywords: src/voice_query_system.py lines 62-66; each keyword is the sequence of
\* its code points, each table an ordered mapping (insertion order kept).
sport_keywords ==
  << <<"f1", <<
        <<102, 49>>,   \* f1
        <<70, 49>>,   \* F1
        <<19968, 32423, 26041, 31243, 24335>>,   \* 一级方程式
        <<36187, 36710>>,   \* 赛车
        <<36710, 25163>>,   \* 车手
        <<36710, 38431>>,   \* 车队
        <<31215, 20998, 27036>>,   \* 积分榜
        <<27604, 36187, 32467, 26524>>,   \* 比赛结果
        <<25490, 20301, 36187>>    \* 排位赛
     >> >>,
     <<"football", <<
        <<36275, 29699>>,   \* 足球
        <<33521, 36229>>,   \* 英超
        <<35199, 30002>>,   \* 西甲
        <<24503, 30002>>,   \* 德甲
        <<24847, 30002>>,   \* 意甲
        <<27861, 30002>>,   \* 法甲
        <<32852, 36187>>,   \* 联赛
        <<31215, 20998, 27036>>,   \* 积分榜
        <<27604, 36187>>,   \* 比赛
        <<29699, 38431>>,   \* 球队
        <<23556, 25163, 27036>>    \* 射手榜
     >> >>,
     <<"nba", <<
        <<110, 98, 97>>,   \* nba
        <<78, 66, 65>>,   \* NBA
        <<31726, 29699>>,   \* 篮球
        <<29699, 38431>>,   \* 球队
        <<29699, 21592>>,   \* 球员
        <<36187, 31243>>,   \* 赛程
        <<28246, 20154>>,   \* 湖人
        <<21191, 22763>>,   \* 勇士
        <<20975, 23572, 29305, 20154>>,   \* 凯尔特人
        <<24211, 37324>>,   \* 库里
        <<35449, 22982, 26031>>,   \* 詹姆斯
        <<26460, 20848, 29305>>    \* 杜兰特
     >> >> >>

\* query_types: src/voice_query_system.py lines 68-78; each keyword is the sequence of
\* its code points, each table an ordered mapping (insertion order kept).
query_types ==
  << <<"schedule", <<
        <<36187, 31243>>,   \* 赛程
        <<27604, 36187, 23433, 25490>>,   \* 比赛安排
        <<26085, 31243>>,   \* 日程
        <<26102, 38388, 34920>>    \* 时间表
     >> >>,
     <<"standings", <<
        <<31215, 20998, 27036>>,   \* 积分榜
        <<25490, 21517>>,   \* 排名
        <<25490, 34892, 27036>>,   \* 排行榜
        <<27036, 21333>>    \* 榜单
     >> >>,
     <<"results", <<
        <<32467, 26524>>,   \* 结果
        <<27604, 20998>>,   \* 比分
        <<25104, 32489>>    \* 成绩
     >> >>,
     <<"teams", <<
        <<29699, 38431>>,   \* 球队
        <<38431, 20237>>,   \* 队伍
        <<36710, 38431>>    \* 车队
     >> >>,
     <<"players", <<
        <<29699, 21592>>,   \* 球员
        <<36710, 25163>>,   \* 车手
        <<36873, 25163>>,   \* 选手
        <<21517, 21333>>,   \* 名单
        <<38453, 23481>>    \* 阵容
     >> >>,
     <<"today", <<
        <<20170, 22825>>,   \* 今天
        <<20170, 26085>>,   \* 今日
        <<24403, 22825>>    \* 当天
     >> >>,
     <<"live", <<
        <<23454, 26102>>,   \* 实时
        <<30452, 25773>>,   \* 直播
        <<29616, 22330>>    \* 现场
     >> >>,
     <<"top_scorers", <<
        <<23556, 25163, 27036>>,   \* 射手榜
        <<23556, 25163>>,   \* 射手
        <<36827, 29699, 27036>>,   \* 进球榜
        <<24471, 20998, 27036>>    \* 得分榜
     >> >>,
     <<"player_stats", <<
        <<25968, 25454>>,   \* 数据
        <<32479, 35745>>,   \* 统计
        <<34920, 29616>>    \* 表现
     >> >> >>

\* player_names: src/voice_query_system.py lines 81-100; alias (code points) -> canonical value.
player_names ==
  << <<"nba", <<
        <<<<24211, 37324>>, "Stephen Curry">>,   \* 库里
        <<<<26031, 33922, 33452, 24211, 37324>>, "Stephen Curry">>,   \* 斯蒂芬库里
        <<<<35449, 22982, 26031>>, "LeBron James">>,   \* 詹姆斯
        <<<<21202, 24067, 26391, 35449, 22982, 26031>>, "LeBron James">>,   \* 勒布朗詹姆斯
        <<<<26460, 20848, 29305>>, "Kevin Durant">>,   \* 杜兰特
        <<<<20975, 25991, 26460, 20848, 29305>>, "Kevin Durant">>,   \* 凯文杜兰特
        <<<<23383, 27597, 21733>>, "Giannis Antetokounmpo">>,   \* 字母哥
        <<<<23433, 29305, 25176, 26118, 21338>>, "Giannis Antetokounmpo">>,   \* 安特托昆博
        <<<<19996, 22865, 22855>>, "Luka Doncic">>,   \* 东契奇
        <<<<21346, 21345, 19996, 22865, 22855>>, "Luka Doncic">>,   \* 卢卡东契奇
        <<<<22612, 22270, 22982>>, "Jayson Tatum">>,   \* 塔图姆
        <<<<26480, 26862, 22612, 22270, 22982>>, "Jayson Tatum">>,   \* 杰森塔图姆
        <<<<32422, 22522, 22855>>, "Nikola Jokic">>,   \* 约基奇
        <<<<23612, 21476, 25289, 32422, 22522, 22855>>, "Nikola Jokic">>,   \* 尼古拉约基奇
        <<<<24681, 27604, 24503>>, "Joel Embiid">>,   \* 恩比德
        <<<<20052, 23572, 24681, 27604, 24503>>, "Joel Embiid">>    \* 乔尔恩比德
     >> >> >>

\* team_names: src/voice_query_system.py lines 102-157; alias (code points) -> canonical value.
team_names ==
  << <<"nba", <<
        <<<<28246, 20154>>, "Lakers">>,   \* 湖人
        <<<<28246, 20154, 38431>>, "Lakers">>,   \* 湖人队
        <<<<27931, 26441, 30710, 28246, 20154>>, "Lakers">>,   \* 洛杉矶湖人
        <<<<21191, 22763>>, "Warriors">>,   \* 勇士
        <<<<21191, 22763, 38431>>, "Warriors">>,   \* 勇士队
        <<<<37329, 24030, 21191, 22763>>, "Warriors">>,   \* 金州勇士
        <<<<20975, 23572, 29305, 20154>>, "Celtics">>,   \* 凯尔特人
        <<<<20975, 23572, 29305, 20154, 38431>>, "Celtics">>,   \* 凯尔特人队
        <<<<27874, 22763, 39039, 20975, 23572, 29305, 20154>>, "Celtics">>,   \* 波士顿凯尔特人
        <<<<20844, 29275>>, "Bulls">>,   \* 公牛
        <<<<20844, 29275, 38431>>, "Bulls">>,   \* 公牛队
        <<<<33437, 21152, 21733, 20844, 29275>>, "Bulls">>,   \* 芝加哥公牛
        <<<<28909, 28779>>, "Heat">>,   \* 热火
        <<<<28909, 28779, 38431>>, "Heat">>,   \* 热火队
        <<<<36808, 38463, 23494, 28909, 28779>>, "Heat">>,   \* 迈阿密热火
        <<<<39532, 21050>>, "Spurs">>,   \* 马刺
        <<<<39532, 21050, 38431>>, "Spurs">>,   \* 马刺队
        <<<<22307, 23433, 19996, 23612, 22885, 39532, 21050>>, "Spurs">>,   \* 圣安东尼奥马刺
        <<<<28779, 31661>>, "Rockets">>,   \* 火箭
        <<<<28779, 31661, 38431>>, "Rockets">>,   \* 火箭队
        <<<<20241, 26031, 39039, 28779, 31661>>, "Rockets">>,   \* 休斯顿火箭
        <<<<38647, 38662>>, "Thunder">>,   \* 雷霆
        <<<<38647, 38662, 38431>>, "Thunder">>,   \* 雷霆队
        <<<<20420, 20811, 25289, 33655, 39532, 38647, 38662>>, "Thunder">>,   \* 俄克拉荷马雷霆
        <<<<24555, 33337>>, "Clippers">>,   \* 快船
        <<<<24555, 33337, 38431>>, "Clippers">>,   \* 快船队
        <<<<27931, 26441, 30710, 24555, 33337>>, "Clippers">>,   \* 洛杉矶快船
        <<<<23612, 20811, 26031>>, "Knicks">>,   \* 尼克斯
        <<<<23612, 20811, 26031, 38431>>, "Knicks">>,   \* 尼克斯队
        <<<<32445, 32422, 23612, 20811, 26031>>, "Knicks">>,   \* 纽约尼克斯
        <<<<31726, 32593>>, "Nets">>,   \* 篮网
        <<<<31726, 32593, 38431>>, "Nets">>,   \* 篮网队
        <<<<24067, 40065, 20811, 26519, 31726, 32593>>, "Nets">>,   \* 布鲁克林篮网
        <<<<55, 54, 20154>>, "76ers">>,   \* 76人
        <<<<55, 54, 20154, 38431>>, "76ers">>,   \* 76人队
        <<<<36153, 22478, 55, 54, 20154>>, "76ers">>,   \* 费城76人
        <<<<38596, 40575>>, "Bucks">>,   \* 雄鹿
        <<<<38596, 40575, 38431>>, "Bucks">>,   \* 雄鹿队
        <<<<23494, 23572, 27779, 22522, 38596, 40575>>, "Bucks">>    \* 密尔沃基雄鹿
     >> >>,
     <<"football", <<
        <<<<33521, 36229>>, 2021>>,   \* 英超
        <<<<35199, 30002>>, 2014>>,   \* 西甲
        <<<<24503, 30002>>, 2002>>,   \* 德甲
        <<<<24847, 30002>>, 2019>>,   \* 意甲
        <<<<27861, 30002>>, 2015>>    \* 法甲
     >> >> >>
\* str.lower() on one code point: A-Z go to a-z; the other code points of the
\* tables and of the texts have no case.
LowerChar(c) == IF c \in 65..90 THEN c + 32 ELSE c

Lower(text) == [i \in 1..Len(text) |-> LowerChar(text[i])]

\* str.strip(): white space (tab .. carriage return, space, ideographic space).
IsSpace(c) == c \in {9, 10, 11, 12, 13, 32, 12288}

Strip(text) ==
    LET idx == {i \in 1..Len(text) : ~IsSpace(text[i])}
    IN  IF idx = {} THEN <<>>
        ELSE SubSeq(text, CHOOSE i \in idx : \A j \in idx : i <= j,
                          CHOOSE i \in idx : \A j \in idx : i >= j)

\* keyword in text (substring test)
Contains(text, kw) ==
    \E i \in 1..(Len(text) - Len(kw) + 1) :
        \A j \in 1..Len(kw) : text[i + j - 1] = kw[j]

\* \d
IsDigit(c) == c \in 48..57

\* int() of a run of digits
RECURSIVE IntOf(_)
IntOf(ds) ==
    IF ds = <<>> THEN 0
    ELSE 10 * IntOf(SubSeq(ds, 1, Len(ds) - 1)) + (ds[Len(ds)] - 48)

\* sum(1 for keyword in keywords if keyword.lower() in text)
SportScore(keywords, text) ==
    Cardinality({i \in 1..Len(keywords) : Contains(text, Lower(keywords[i]))})

\* sum(1 for keyword in keywords if keyword in text)
QueryScore(keywords, text) ==
    Cardinality({i \in 1..Len(keywords) : Contains(text, keywords[i])})

\* max(scores, key=scores.get) over the entries with a positive score, in the
\* table's order: one pass that keeps the first key reaching the highest
\* score; None when no entry scores. scores[i] is the score of table[i].
RECURSIVE MaxKeyFrom(_, _, _, _, _)
MaxKeyFrom(table, scores, i, best, bestScore) ==
    IF i > Len(table) THEN best
    ELSE IF scores[i] > bestScore
         THEN MaxKeyFrom(table, scores, i + 1, table[i][1], scores[i])
         ELSE MaxKeyFrom(table, scores, i + 1, best, bestScore)

\* max(scores, key=scores.get) over every entry of the table, those that score
\* nothing included: the first key is returned when no entry scores.
MaxKeyOverAllScores(table, scores) ==
    MaxKeyFrom(table, scores, 2, table[1][1], scores[1])

\* The key of the highest positive score where the last of several entries
\* that tie wins.
MaxKeyLastOfTies(table, scores) ==
    LET top == {i \in 1..Len(table) :
                   scores[i] > 0 /\ \A j \in 1..Len(table) : scores[j] <= scores[i]}
    IN  IF top = {} THEN None
        ELSE table[CHOOSE i \in top : \A j \in top : j <= i][1]

MaxKey(table, scores) == MaxKeyFrom(table, scores, 1, None, 0)

\* re.search(r'(\d{4})年?', text): the first place where four digits start.
YearMatch(text) ==
    {i \in 1..(Len(text) - 3) : \A j \in i..(i + 3) : IsDigit(text[j])}

\* re.search(r'第?(\d+)轮', text): the digits of the leftmost match. A match
\* takes a whole run of digits (the greedy \d+ cannot stop before a digit)
\* that 轮 (36718) follows; a leading 第 moves the start, not the digits.
RoundMatch(text) ==
    {i \in 1..Len(text) :
        /\ IsDigit(text[i])
        /\ i = 1 \/ ~IsDigit(text[i - 1])
        /\ \E e \in i..Len(text) :
              /\ \A j \in i..e : IsDigit(text[j])
              /\ e < Len(text) /\ text[e + 1] = 36718}

RoundDigits(text, i) ==
    LET e == CHOOSE e \in i..Len(text) :
                 /\ \A j \in i..e : IsDigit(text[j])
                 /\ e < Len(text) /\ text[e + 1] = 36718
    IN  SubSeq(text, i, e)

Min(S) == CHOOSE x \in S : \A y \in S : x <= y

\* The first alias of the table that is the whole text (alias == text in the
\* place of alias in text).
FirstAliasWholeText(aliases, text) ==
    LET hit == {i \in 1..Len(aliases) : aliases[i][1] = text}
    IN  IF hit = {} THEN {} ELSE {Min(hit)}

\* The first alias of the table that the text contains, as a set of indices
\* holding that one index (empty when the text contains none).
FirstAlias(aliases, text) ==
    LET hit == {i \in 1..Len(aliases) : Contains(text, aliases[i][1])}
    IN  IF hit = {} THEN {} ELSE {Min(hit)}

_extract_parameters(text, sport) ==
    LET p1 == IF YearMatch(text) # {}
              THEN <<<<"year", IntOf(SubSeq(text, Min(YearMatch(text)),
                                            Min(YearMatch(text)) + 3))>>>>
              ELSE <<>>
        players == IF DictHas(player_names, sport)
                   THEN DictGet(player_names, sport) ELSE <<>>
        ph == FirstAlias(players, text)
        p2 == IF ph # {}
              THEN DictPut(p1, "player", players[Min(ph)][2]) ELSE p1
        teams == IF DictHas(team_names, sport)
                 THEN DictGet(team_names, sport) ELSE <<>>
        th == FirstAlias(teams, text)
        \* isinstance(team_en, int): the values of the football table
        p3 == IF th # {}
              THEN IF sport = "football"
                   THEN DictPut(p2, "league_id", teams[Min(th)][2])
                   ELSE DictPut(p2, "team", teams[Min(th)][2])
              ELSE p2
    IN  IF RoundMatch(text) # {}
        THEN DictPut(p3, "round", IntOf(RoundDigits(text, Min(RoundMatch(text)))))
        ELSE p3

\* The fresh result dict of a call (lines 172-178).
NewResult(text) ==
    [sport |-> None, query_type |-> None, parameters |-> <<>>,
     confidence |-> 0, original_text |-> text]

\* confidence += value in the place of confidence = max(confidence, value)
Added(a, b) == a + b

Max(a, b) == IF a >= b THEN a ELSE b

\* The list of line 207 without its first and its last three words: the
\* keywords of player_stats in query_types (数据, 统计, 表现).
StatWordsOfQueryTypes ==
    << <<25968, 25454>>, <<32479, 35745>>, <<34920, 29616>> >>

\* ['得分', '数据', '统计', '表现', '平均', '场均'] (line 207)
StatWords ==
    << <<24471, 20998>>, <<25968, 25454>>, <<32479, 35745>>,
       <<34920, 29616>>, <<24179, 22343>>, <<22330, 22343>> >>

\* parse_query with its last two special rules in the other order: the F1
\* constructors rule comes after the F1 drivers rule.
parse_query_constructors_last(raw) ==
    LET text == Strip(Lower(raw))
        r0 == NewResult(text)
        sport == MaxKey(sport_keywords,
                       [i \in 1..Len(sport_keywords) |->
                           SportScore(sport_keywords[i][2], text)])
        r1 == IF sport # None
              THEN [r0 EXCEPT !.sport = sport, !.confidence = @ + 3] ELSE r0
        qt == MaxKey(query_types,
                    [i \in 1..Len(query_types) |->
                        QueryScore(query_types[i][2], text)])
        r2 == IF qt # None
              THEN [r1 EXCEPT !.query_type = qt, !.confidence = @ + 3] ELSE r1
        \* a player's name in the text
        r3 == IF /\ DictHas(player_names, r2.sport)
                 /\ FirstAlias(DictGet(player_names, r2.sport), text) # {}
              THEN [r2 EXCEPT
                      !.query_type =
                          IF \E i \in 1..Len(StatWords) : Contains(text, StatWords[i])
                          THEN "player_stats" ELSE "players",
                      !.confidence = Max(@, 8)]
              ELSE r2
        \* football top scorers: 射手 or 进球
        r4 == IF /\ r3.sport = "football"
                 /\ \/ Contains(text, <<23556, 25163>>)
                    \/ Contains(text, <<36827, 29699>>)
              THEN [r3 EXCEPT !.query_type = "top_scorers",
                              !.confidence = Max(@, 7)]
              ELSE r3
        \* F1 drivers: 车手 and 积分榜
        r5 == IF /\ r4.sport = "f1"
                 /\ Contains(text, <<36710, 25163>>)
                 /\ Contains(text, <<31215, 20998, 27036>>)
              THEN [r4 EXCEPT !.query_type = "standings", !.confidence = Max(@, 9)]
              ELSE r4
        \* F1 constructors: 车队 and 积分榜
        r6 == IF /\ r5.sport = "f1"
                 /\ Contains(text, <<36710, 38431>>)
                 /\ Contains(text, <<31215, 20998, 27036>>)
              THEN [r5 EXCEPT !.query_type = "teams", !.confidence = Max(@, 9)]
              ELSE r5
        params == _extract_parameters(text, r6.sport)
    IN  [r6 EXCEPT !.parameters = params,
                   !.confidence = IF params # <<>> THEN @ + 4 ELSE @]

parse_query(raw) ==
    LET text == Strip(Lower(raw))
        r0 == NewResult(text)
        sport == MaxKey(sport_keywords,
                       [i \in 1..Len(sport_keywords) |->
                           SportScore(sport_keywords[i][2], text)])
        r1 == IF sport # None
              THEN [r0 EXCEPT !.sport = sport, !.confidence = @ + 3] ELSE r0
        qt == MaxKey(query_types,
                    [i \in 1..Len(query_types) |->
                        QueryScore(query_types[i][2], text)])
        r2 == IF qt # None
              THEN [r1 EXCEPT !.query_type = qt, !.confidence = @ + 3] ELSE r1
        \* a player's name in the text
        r3 == IF /\ DictHas(player_names, r2.sport)
                 /\ FirstAlias(DictGet(player_names, r2.sport), text) # {}
              THEN [r2 EXCEPT
                      !.query_type =
                          IF \E i \in 1..Len(StatWords) : Contains(text, StatWords[i])
                          THEN "player_stats" ELSE "players",
                      !.confidence = Max(@, 8)]
              ELSE r2
        \* football top scorers: 射手 or 进球
        r4 == IF /\ r3.sport = "football"
                 /\ \/ Contains(text, <<23556, 25163>>)
                    \/ Contains(text, <<36827, 29699>>)
              THEN [r3 EXCEPT !.query_type = "top_scorers",
                              !.confidence = Max(@, 7)]
              ELSE r3
        \* F1 constructors: 车队 and 积分榜
        r5 == IF /\ r4.sport = "f1"
                 /\ Contains(text, <<36710, 38431>>)
                 /\ Contains(text, <<31215, 20998, 27036>>)
              THEN [r4 EXCEPT !.query_type = "teams", !.confidence = Max(@, 9)]
              ELSE r4
        \* F1 drivers: 车手 and 积分榜
        r6 == IF /\ r5.sport = "f1"
                 /\ Contains(text, <<36710, 25163>>)
                 /\ Contains(text, <<31215, 20998, 27036>>)
              THEN [r5 EXCEPT !.query_type = "standings", !.confidence = Max(@, 9)]
              ELSE r5
        params == _extract_parameters(text, r6.sport)
    IN  [r6 EXCEPT !.parameters = params,
                   !.confidence = IF params # <<>> THEN @ + 4 ELSE @]

-----------------------------------------------------------------------------
(* QueryCache                                                               *)

\* datetime.now().isoformat() at day t
ISO(t) == [iso |-> t]

\* datetime.fromisoformat(ts) succeeds
Parseable(ts) == "iso" \in DOMAIN ts

\* item_time < cutoff_time can be evaluated: a time with a UTC offset and
\* cutoff_time, which has none, do not compare (TypeError).
Comparable(ts) == "offset" \notin DOMAIN ts

\* isinstance(value, dict): a JSON value that is no object is [scalar |-> ..]
IsDict(value) == "scalar" \notin DOMAIN value

\* ['f1', 'football', 'nba'] (line 84)
Sports == <<"f1", "football", "nba">>

\* max_age_days: int = 7 (line 79)
MaxAgeDays == 7

\* The empty store of _load_cache (lines 48-56 and 59-67) and of clear_cache
\* (lines 266-274).
EmptyCache(t) ==
    [f1 |-> <<>>, football |-> <<>>, nba |-> <<>>,
     metadata |-> [last_updated |-> ISO(t), version |-> "1.0"]]

\* item_time < cutoff_time (line 91), cutoff_time = now - max_age_days
IsExpired(ts, t) == ts.iso < t - MaxAgeDays

\* The keys that _clean_expired_data collects for one sport (lines 86-94):
\* the bare except (line 93) takes a timestamp that does not parse and one
\* that does not compare.
ExpiredKeys(entries, t) ==
    {entries[i][1] : i \in {j \in 1..Len(entries) :
        LET value == entries[j][2]
        IN  /\ IsDict(value)
            /\ "timestamp" \in DOMAIN value
            /\ \/ ~Parseable(value.timestamp)
               \/ ~Comparable(value.timestamp)
               \/ IsExpired(value.timestamp, t)}}

\* _clean_expired_data: every sport's mapping of the document is a mapping
\* here, so the outer except (line 99) is never taken.
_clean_expired_data(data, t) ==
    [k \in DOMAIN data |->
        IF \E i \in 1..Len(Sports) : Sports[i] = k
        THEN SelectSeq(data[k], LAMBDA kv : kv[1] \notin ExpiredKeys(data[k], t))
        ELSE data[k]]

\* json.dump of the document, read back by json.load: a key None is written
\* as "null"; when the document holds both, "null" is written twice and the
\* reader keeps the later one, which is None's (the newer key).
JsonDocument(data) ==
    LET keys == (DOMAIN data \ {None}) \cup
                (IF None \in DOMAIN data THEN {"null"} ELSE {})
    IN  [k \in keys |->
            IF k = "null" /\ None \in DOMAIN data THEN data[None] ELSE data[k]]

\* What happens to the file in _save_cache: written; open() fails and leaves
\* the file as it was; open() truncates and json.dump fails part-way.
IOOutcomes == {"ok", "open_fail", "dump_fail"}

\* _load_cache whose except branch returns the three empty mappings without
\* the metadata record.
_load_cache_except_without_metadata(file, t) ==
    IF file.state = "ok" THEN _clean_expired_data(file.data, t)
    ELSE IF file.state = "missing" THEN EmptyCache(t)
    ELSE [f1 |-> <<>>, football |-> <<>>, nba |-> <<>>]

\* _load_cache: the file is absent, or unreadable / not JSON (except branch),
\* or holds a document.
_load_cache(file, t) ==
    IF file.state = "ok" THEN _clean_expired_data(file.data, t)
    ELSE EmptyCache(t)

\* _save_cache, the in-memory part (line 72). Without a metadata record the
\* assignment raises and nothing is written.
SaveMemory(data, t) ==
    IF "metadata" \in DOMAIN data
    THEN [data EXCEPT !["metadata"] =
            [f \in DOMAIN @ \cup {"last_updated"} |->
                IF f = "last_updated" THEN ISO(t) ELSE @[f]]]
    ELSE data

\* _save_cache, the file (lines 73-74); saved is the document after line 72.
SaveFile(file, saved, io) ==
    IF "metadata" \notin DOMAIN saved \/ io = "open_fail" THEN file
    ELSE IF io = "dump_fail" THEN [state |-> "corrupt"]
    ELSE [state |-> "ok", data |-> JsonDocument(saved)]

\* f"{parameters[param]}": league_id, year and round are integers, team a str
ParamStr(name, v) == IF name = "team" \/ name = "player" THEN v ELSE ToString(v)

\* The list of line 229 with player at its end.
KeyParamsWithPlayer == <<"league_id", "team", "year", "round", "player">>

\* ['league_id', 'team', 'year', 'round'] (line 229)
KeyParams == <<"league_id", "team", "year", "round">>

RECURSIVE KeyParts(_, _)
KeyParts(parameters, i) ==
    IF i > Len(KeyParams) THEN ""
    ELSE (IF DictHas(parameters, KeyParams[i])
          THEN "_" \o KeyParams[i] \o "_"
                   \o ParamStr(KeyParams[i], DictGet(parameters, KeyParams[i]))
          ELSE "")
         \o KeyParts(parameters, i + 1)

\* The key built by a loop over the parameters in the place of the loop over
\* the four names: the parts come in the insertion order of the parameters.
_generate_cache_key_in_given_order(query_type, parameters) ==
    LET named(name) == \E i \in 1..Len(KeyParams) : KeyParams[i] = name
        parts[i \in 0..Len(parameters)] ==
            IF i = 0 THEN ""
            ELSE parts[i - 1] \o
                 (IF named(parameters[i][1])
                  THEN "_" \o parameters[i][1] \o "_"
                           \o ParamStr(parameters[i][1], parameters[i][2])
                  ELSE "")
    IN  query_type \o parts[Len(parameters)]

\* "_".join(key_parts); raises TypeError when query_type is None, which
\* store_query_result turns into a None result.
_generate_cache_key(query_type, parameters) ==
    query_type \o KeyParts(parameters, 1)

\* result_data.get('success', False)
SuccessOf(result_data) ==
    IF "success" \in DOMAIN result_data THEN result_data.success ELSE FALSE

CacheEntry(query_type, parameters, result_data, original_text, t) ==
    [query_type |-> query_type, parameters |-> parameters,
     result_data |-> result_data, original_text |-> original_text,
     timestamp |-> ISO(t), success |-> SuccessOf(result_data)]

\* store_query_result that leaves a successful entry in its place when the
\* new result is not successful.
StoreMemoryKeepsSuccessful(data, sport, query_type, parameters, result_data, original_text, t) ==
    IF query_type = None THEN data
    ELSE LET cache_key == _generate_cache_key(query_type, parameters)
             entry == CacheEntry(query_type, parameters, result_data, original_text, t)
             d1 == IF sport \in DOMAIN data THEN data ELSE (sport :> <<>>) @@ data
             kept == /\ DictHas(d1[sport], cache_key)
                     /\ DictGet(d1[sport], cache_key).success
                     /\ ~entry.success
         IN  SaveMemory([d1 EXCEPT ![sport] =
                            IF kept THEN @ ELSE DictPut(@, cache_key, entry)], t)

\* store_query_result, in memory: the document after the call. sport is a
\* sport name or None, never "metadata".
StoreMemory(data, sport, query_type, parameters, result_data, original_text, t) ==
    IF query_type = None THEN data
    ELSE LET cache_key == _generate_cache_key(query_type, parameters)
             entry == CacheEntry(query_type, parameters, result_data, original_text, t)
             d1 == IF sport \in DOMAIN data THEN data ELSE (sport :> <<>>) @@ data
         IN  SaveMemory([d1 EXCEPT ![sport] = DictPut(@, cache_key, entry)], t)

\* store_query_result, its return value
StoreReturn(query_type, parameters) ==
    IF query_type = None THEN None
    ELSE _generate_cache_key(query_type, parameters)

NotFound == [found |-> FALSE]

Found(v) == [found |-> TRUE, value |-> v]

\* get_query_result: None is NotFound. The metadata record is a dict too.
get_query_result(data, sport, cache_key) ==
    IF sport \notin DOMAIN data THEN NotFound
    ELSE IF sport = "metadata"
         THEN IF cache_key \in DOMAIN data[sport]
              THEN Found(data[sport][cache_key]) ELSE NotFound
         ELSE IF DictHas(data[sport], cache_key)
              THEN Found(DictGet(data[sport], cache_key)) ELSE NotFound

\* clear_cache that takes the else branch whatever the sport: every sport is
\* emptied.
ClearMemoryAll(data, sport, t) == SaveMemory(EmptyCache(t), t)

\* clear_cache that deletes one entry of the sport, the oldest, per call.
ClearMemoryOldest(data, sport, t) ==
    SaveMemory(
        IF sport # None /\ sport # ""
        THEN IF sport \in DOMAIN data /\ sport # "metadata" /\ data[sport] # <<>>
             THEN [data EXCEPT ![sport] = Tail(@)]
             ELSE data
        ELSE EmptyCache(t), t)

\* clear_cache, in memory. `if sport:` is false for None and for "".
ClearMemory(data, sport, t) ==
    SaveMemory(
        IF sport # None /\ sport # ""
        THEN IF sport \in DOMAIN data
             THEN [data EXCEPT ![sport] = <<>>]
             ELSE data
        ELSE EmptyCache(t), t)

\* _get_league_name: league_names.get(league_id, f"联赛{league_id}"); a name
\* is the sequence of its code points.
_get_league_name(league_id) ==
    CASE league_id = 2021 -> <<33521, 36229>>   \* 英超
      [] league_id = 2014 -> <<35199, 30002>>   \* 西甲
      [] league_id = 2002 -> <<24503, 30002>>   \* 德甲
      [] league_id = 2019 -> <<24847, 30002>>   \* 意甲
      [] league_id = 2015 -> <<27861, 30002>>   \* 法甲
      [] league_id = 2017 -> <<33889, 36229>>   \* 葡超
      [] league_id = 2003 -> <<33655, 30002>>   \* 荷甲
      [] league_id = 2013 -> <<24052, 30002>>   \* 巴甲
      [] OTHER -> <<32852, 36187, league_id>>   \* 联赛{league_id}

\* datetime.now().year: day 0 of the clock lies in 2025
YearOf(t) == 2025 + (t \div 365)

\* cache_entry.get('timestamp'): None when the entry has none
NoTimestamp == [none |-> TRUE]

TimestampOf(entry) ==
    IF "timestamp" \in DOMAIN entry THEN entry.timestamp ELSE NoTimestamp

Option(value, label, cache_key, entry) ==
    [value |-> value, label |-> label, cache_key |-> cache_key,
     original_text |-> entry.original_text, timestamp |-> TimestampOf(entry)]

\* The condition of line 176 without its second half: the entry's success is
\* not looked at.
EntryMatchesWhateverSuccess(entry, query_type) ==
    "query_type" \in DOMAIN entry /\ entry.query_type = query_type

\* cache_entry.get('query_type') == query_type and cache_entry.get('success')
\* (line 176)
EntryMatches(entry, query_type) ==
    /\ "query_type" \in DOMAIN entry /\ entry.query_type = query_type
    /\ "success" \in DOMAIN entry /\ entry.success

\* The option that one matching entry contributes (lines 177-214), as a
\* sequence of zero or one option.
EntryOptions(sport, query_type, cache_key, entry, t) ==
    LET parameters == entry.parameters
    IN  IF query_type = "standings" /\ sport = "football"
        THEN IF DictHas(parameters, "league_id") /\ DictGet(parameters, "league_id") # 0
             THEN <<Option(DictGet(parameters, "league_id"),
                           _get_league_name(DictGet(parameters, "league_id")),
                           cache_key, entry)>>
             ELSE <<>>
        ELSE IF query_type = "schedule" /\ sport = "nba"
        THEN IF DictHas(parameters, "team") /\ DictGet(parameters, "team") # ""
             THEN <<Option(DictGet(parameters, "team"),
                           \* f"{team} 赛程"
                           <<DictGet(parameters, "team"), 32, 36187, 31243>>,
                           cache_key, entry)>>
             ELSE <<>>
        ELSE IF query_type = "standings" /\ sport = "f1"
        THEN LET year == IF DictHas(parameters, "year")
                         THEN DictGet(parameters, "year") ELSE YearOf(t)
             IN  <<Option("f1_" \o ToString(year),
                          \* f"{year}年 F1积分榜"
                          <<year, 24180, 32, 70, 49, 31215, 20998, 27036>>,
                          cache_key, entry)>>
        ELSE <<>>

RECURSIVE CollectOptions(_, _, _, _)
CollectOptions(entries, sport, query_type, t) ==
    IF entries = <<>> THEN <<>>
    ELSE (IF EntryMatches(entries[1][2], query_type)
          THEN EntryOptions(sport, query_type, entries[1][1], entries[1][2], t)
          ELSE <<>>)
         \o CollectOptions(Tail(entries), sport, query_type, t)

\* a's timestamp string is greater than or equal to b's: ISO strings of one
\* format order as their times do; text that is no date starts with a letter
\* and is greater than any ISO string.
TimestampGE(a, b) ==
    IF Parseable(a.timestamp) /\ Parseable(b.timestamp)
    THEN a.timestamp.iso >= b.timestamp.iso
    ELSE ~Parseable(a.timestamp)

\* sorted(options, key=...)[::-1] in the place of sort(reverse=True): the
\* order is descending and options of equal timestamp come out reversed.
RECURSIVE SortOptionsTiesReversed(_)
SortOptionsTiesReversed(options) ==
    IF options = <<>> THEN <<>>
    ELSE LET n == Len(options)
             front == SortOptionsTiesReversed(SubSeq(options, 1, n - 1))
             x == options[n]
             before == {i \in 1..Len(front) : ~TimestampGE(x, front[i])}
             k == Cardinality(before)
         IN  SubSeq(front, 1, k) \o <<x>> \o SubSeq(front, k + 1, Len(front))

\* list.sort(key=..., reverse=True): stable, so an option goes after the
\* options that are greater than or equal to it.
RECURSIVE SortOptions(_)
SortOptions(options) ==
    IF options = <<>> THEN <<>>
    ELSE LET n == Len(options)
             front == SortOptions(SubSeq(options, 1, n - 1))
             x == options[n]
             before == {i \in 1..Len(front) : TimestampGE(front[i], x)}
             k == Cardinality(before)
         IN  SubSeq(front, 1, k) \o <<x>> \o SubSeq(front, k + 1, Len(front))

\* get_available_options. An entry that is no dict, and a None sort key among
\* two or more options, raise, and the except branch returns [] (line 222).
\* The values of the metadata record are no dicts.
get_available_options(data, sport, query_type, t) ==
    IF sport \notin DOMAIN data THEN <<>>
    ELSE IF sport = "metadata"
    THEN <<>>
    ELSE IF \E i \in 1..Len(data[sport]) : ~IsDict(data[sport][i][2])
    THEN <<>>
    ELSE LET options == CollectOptions(data[sport], sport, query_type, t)
         IN  IF Len(options) >= 2 /\ \E i \in 1..Len(options) :
                                        "none" \in DOMAIN options[i].timestamp
             THEN <<>>
             ELSE SortOptions(options)

-----------------------------------------------------------------------------
(* Bounds and the inputs of the calls                                       *)

\* The clock runs from day 0 to day MaxTime.
MaxTime == 1

\* A parameters dict passed to store_query_result directly holds at most
\* MaxParams parameters.
MaxParams == 2

\* The store holds at most MaxEntries entries after a direct call of
\* store_query_result.
MaxEntries == 1

\* A document found on disk holds at most MaxLegacy entries.
MaxLegacy == 2

\* A text to parse is made of at most MaxWords words.
MaxWords == 3

\* The parameters a caller of store_query_result may pass, one value each.
ParamChoices == {<<"league_id", 2021>>, <<"year", 2024>>}

\* Every dict of at most n of these parameters, in every insertion order.
RECURSIVE DictsUpTo(_)
DictsUpTo(n) ==
    IF n = 0 THEN {<<>>}
    ELSE DictsUpTo(n - 1) \cup
         {Append(d, p) : d \in {e \in DictsUpTo(n - 1) : Len(e) = n - 1},
                         p \in ParamChoices}

ParamDicts == {d \in DictsUpTo(MaxParams) : Cardinality(DictKeys(d)) = Len(d)}

\* What a data-source client returns (opaque but for the success flag), and a
\* payload that carries no success flag.
ApiResults == {[success |-> TRUE, data |-> "rows"], [success |-> FALSE, error |-> "failed"]}

ResultPayloads == ApiResults \cup {[data |-> "rows"]}

StoreTypes == {"standings", "schedule"}

\* The texts typed or spoken:
QueryTexts ==
    { <<25490, 21517>>,                                  \* 排名
      <<33521, 36229, 31215, 20998, 27036>>,             \* 英超积分榜
      <<28246, 20154, 38431, 30340, 36187, 31243>>,      \* 湖人队的赛程
      <<26597, 35810, 70, 49, 36710, 25163, 31215, 20998, 27036>>,  \* 查询F1车手积分榜
      <<38543, 20415>>,                                  \* 随便
      <<50, 48, 50, 51, 24180>>,                         \* 2023年
      <<33521, 36229, 36187, 31243>> }                   \* 英超赛程

\* The sport of a request to the cache routes: a sport, the metadata record's
\* name, a name that is no sport, the empty string, or no sport at all.
RouteSports == {"f1", "football", "nba", "metadata", "tennis"}

ClearSports == RouteSports \cup {"", None}

SportSet == {Sports[i] : i \in 1..Len(Sports)}

TotalEntries(data) ==
    LET Count[i \in 0..Len(Sports)] ==
            IF i = 0 THEN 0
            ELSE Count[i - 1] + (IF Sports[i] \in DOMAIN data THEN Len(data[Sports[i]]) ELSE 0)
    IN  Count[Len(Sports)]

StoredKeys(data) ==
    UNION {DictKeys(data[Sports[i]]) : i \in {j \in 1..Len(Sports) : Sports[j] \in DOMAIN data}}

-----------------------------------------------------------------------------
(* The calls                                                                *)

NoCall == [op |-> "none"]

\* The request workers: the threads of the server (async_mode='threading') and
\* the query threads that handle_process_query starts.
Threads == {"t1", "t2"}

Idle == [pc |-> "idle"]

\* No worker is inside a call: the calls below run one at a time.
NoThreads == [t \in Threads |-> Idle]

\* QueryCache.store_query_result(sport, query_type, parameters, result_data,
\* original_text), _save_cache included.
StoreQueryResult(sport, query_type, parameters, result_data, original_text, io) ==
    /\ cache_data' = StoreMemory(cache_data, sport, query_type, parameters,
                                 result_data, original_text, now)
    /\ TotalEntries(cache_data') <= MaxEntries
    /\ cache_file' = IF query_type = None THEN cache_file
                     ELSE SaveFile(cache_file, cache_data', io)
    /\ call' = [op |-> "store", sport |-> sport, query_type |-> query_type,
                parameters |-> parameters, result_data |-> result_data,
                original_text |-> original_text,
                \* what the call found under its key
                held |-> get_query_result(cache_data, sport,
                                          StoreReturn(query_type, parameters)),
                ret |-> StoreReturn(query_type, parameters)]
    /\ UNCHANGED <<now, threads>>

\* QueryCache.get_query_result(sport, cache_key)
GetQueryResult(sport, cache_key) ==
    /\ get_query_result(cache_data, sport, cache_key).found \in BOOLEAN
    /\ UNCHANGED vars

\* QueryCache.get_available_options(sport, query_type)
GetAvailableOptions(sport, query_type) ==
    /\ Len(get_available_options(cache_data, sport, query_type, now)) >= 0
    /\ UNCHANGED vars

\* QueryCache.clear_cache(sport), _save_cache included.
ClearCache(sport, io) ==
    /\ cache_data' = ClearMemory(cache_data, sport, now)
    /\ cache_file' = SaveFile(cache_file, cache_data', io)
    /\ call' = [op |-> "clear", sport |-> sport,
                \* what the call found: the entries the sport held, and
                \* whether the call before was this same call
                held |-> IF sport \in SportSet /\ sport \in DOMAIN cache_data
                         THEN Len(cache_data[sport]) ELSE 0,
                again |-> (call.op = "clear" /\ call.sport = sport)]
    /\ UNCHANGED <<now, threads>>

\* VoiceQuerySystem._execute_query: no client for a sport that is None.
_execute_query(query_info, api_result) ==
    IF query_info.sport = None
    THEN [success |-> FALSE, error |-> "unsupported sport"]
    ELSE api_result

\* params.get('year', 2023) of _query_f1_data (lines 599, 602, 605)
DefaultSeason == 2023

\* The season that _query_f1_data asks the F1 client for.
SeasonRequested(params) ==
    IF DictHas(params, "year") THEN DictGet(params, "year") ELSE DefaultSeason

\* The acceptance threshold 0.3 of process_query_text (line 503), in tenths.
Threshold == 3

\* The sport whose _query_*_data method _execute_query calls (lines 577-582),
\* None when it calls none (line 584).
ClientOf(query_info) ==
    IF query_info.sport \in SportSet THEN query_info.sport ELSE None

\* process_query_text without the test of line 503: every parsed query is
\* executed and stored.
ProcessParsedWithoutThreshold(text, query_info, api_result, io) ==
    LET query_result == _execute_query(query_info, api_result)
    IN  /\ cache_data' = StoreMemory(cache_data, query_info.sport,
                             query_info.query_type, query_info.parameters,
                             query_result, text, now)
        /\ cache_file' = IF query_info.query_type = None THEN cache_file
                         ELSE SaveFile(cache_file, cache_data', io)
        /\ call' = [op |-> "process", text |-> text, query_info |-> query_info,
                    success |-> TRUE, client |-> ClientOf(query_info),
                    data |-> query_result,
                    cache_key |-> StoreReturn(query_info.query_type,
                                              query_info.parameters)]
        /\ UNCHANGED <<now, threads>>

\* process_query_text over a _save_cache without its except: a write that
\* fails ends the call in the except of process_query_text (line 537), after
\* the entry has been put in memory.
ProcessParsedWriteRaises(text, query_info, api_result, io) ==
    LET query_result == _execute_query(query_info, api_result)
    IN  IF query_info.confidence < Threshold
        THEN /\ call' = [op |-> "process", text |-> text, query_info |-> query_info,
                         success |-> FALSE, suggestion |-> TRUE, client |-> None]
             /\ UNCHANGED <<cache_data, cache_file, now, threads>>
        ELSE /\ cache_data' = StoreMemory(cache_data, query_info.sport,
                                  query_info.query_type, query_info.parameters,
                                  query_result, text, now)
             /\ cache_file' = IF query_info.query_type = None THEN cache_file
                              ELSE SaveFile(cache_file, cache_data', io)
             /\ call' = IF query_info.query_type # None /\ io # "ok"
                        THEN [op |-> "process", text |-> text,
                              query_info |-> query_info, success |-> FALSE,
                              client |-> ClientOf(query_info)]
                        ELSE [op |-> "process", text |-> text,
                              query_info |-> query_info, success |-> TRUE,
                              client |-> ClientOf(query_info),
                              data |-> query_result,
                              cache_key |-> StoreReturn(query_info.query_type,
                                                        query_info.parameters)]
             /\ UNCHANGED <<now, threads>>

\* VoiceQuerySystem.process_query_text(text), from the parsed query on
\* (lines 503-535); api_result is what the sport's client returns. client is
\* the client that was called, None when none was.
ProcessParsed(text, query_info, api_result, io) ==
    LET query_result == _execute_query(query_info, api_result)
    IN  IF query_info.confidence < Threshold
        THEN /\ call' = [op |-> "process", text |-> text, query_info |-> query_info,
                         success |-> FALSE, suggestion |-> TRUE, client |-> None]
             /\ UNCHANGED <<cache_data, cache_file, now, threads>>
        ELSE /\ cache_data' = StoreMemory(cache_data, query_info.sport,
                                  query_info.query_type, query_info.parameters,
                                  query_result, text, now)
             /\ cache_file' = IF query_info.query_type = None THEN cache_file
                              ELSE SaveFile(cache_file, cache_data', io)
             /\ call' = [op |-> "process", text |-> text, query_info |-> query_info,
                         success |-> TRUE, client |-> ClientOf(query_info),
                         data |-> query_result,
                         cache_key |-> StoreReturn(query_info.query_type,
                                                   query_info.parameters)]
             /\ UNCHANGED <<now, threads>>

\* VoiceQuerySystem.process_query_text(text): the query is parsed once, the
\* client answers, the write succeeds or fails.
ProcessQueryText(text, results, outcomes) ==
    LET query_info == parse_query(text)
    IN  \E api_result \in results, io \in outcomes :
            ProcessParsed(text, query_info, api_result, io)

\* The process starts again: QueryCache.__init__ loads the file.
Restart ==
    /\ cache_data' = _load_cache(cache_file, now)
    /\ call' = [op |-> "restart", at |-> now]
    /\ UNCHANGED <<cache_file, now, threads>>

\* A day passes.
Tick ==
    /\ now < MaxTime
    /\ now' = now + 1
    /\ UNCHANGED <<cache_data, cache_file, call, threads>>

-----------------------------------------------------------------------------
(* Spec: a fresh installation (no cache file) driven through the web        *)
(* application: queries, the cache routes, restarts.                        *)

\* The writes of Spec succeed or fail part-way. A failing open() leaves an
\* older document of this same store on disk, which a restart then loads.
SpecOutcomes == {"ok", "dump_fail"}

Init ==
    /\ cache_file = [state |-> "missing"]
    /\ now = 0
    /\ cache_data = _load_cache(cache_file, now)
    /\ call = NoCall
    /\ threads = NoThreads

Next ==
    \/ \E text \in QueryTexts : ProcessQueryText(text, ApiResults, SpecOutcomes)
    \/ \E sport \in RouteSports, cache_key \in StoredKeys(cache_data) \cup {"version"} :
          GetQueryResult(sport, cache_key)
    \/ \E sport \in RouteSports, query_type \in StoreTypes :
          GetAvailableOptions(sport, query_type)
    \/ \E sport \in ClearSports, io \in SpecOutcomes : ClearCache(sport, io)
    \/ Restart

Spec == Init /\ [][Next]_vars
-----------------------------------------------------------------------------
(* SpecStore: a fresh installation whose store_query_result is called       *)
(* directly, with the parameters in every insertion order.                  *)

\* The sports of a direct call.
StoreSports == {"f1", "football"}

\* original_text of a direct call: 排名
StoreTexts == {<<25490, 21517>>}

NextStore ==
    \/ \E sport \in StoreSports, query_type \in StoreTypes,
          parameters \in ParamDicts, result_data \in ResultPayloads,
          original_text \in StoreTexts :
          StoreQueryResult(sport, query_type, parameters, result_data,
                           original_text, "ok")
    \/ \E sport \in SportSet, cache_key \in StoredKeys(cache_data) :
          GetQueryResult(sport, cache_key)
    \/ \E sport \in SportSet, query_type \in StoreTypes :
          GetAvailableOptions(sport, query_type)
    \/ \E sport \in SportSet : ClearCache(sport, "ok")
    \/ Restart

SpecStore == Init /\ [][NextStore]_vars

-----------------------------------------------------------------------------
(* SpecLoad: the process starts against a file left on disk by earlier      *)
(* runs or edited by hand, and is restarted as the days pass.               *)

\* The i-th key of a sport in such a document.
LegacyKey(i) == "standings_year_" \o ToString(2020 + i)

\* The timestamps of its entries: older than max_age_days on day 0, exactly
\* max_age_days old on day 0, one day old on day 0, one day old and written
\* with a UTC offset ("...+00:00"); or text that is no date.
LegacyTimestamps ==
    {ISO(0 - (MaxAgeDays + 1)), ISO(0 - MaxAgeDays), ISO(0 - 1),
     [iso |-> 0 - 1, offset |-> 0], [text |-> "yesterday"]}

\* An entry as store_query_result wrote it in an earlier run, its timestamp
\* replaced by ts.
LegacyEntry(i, ts) ==
    [CacheEntry("standings", <<<<"year", 2020 + i>>>>,
                [success |-> TRUE, data |-> "rows"], <<25490, 21517>>, 0)
        EXCEPT !.timestamp = ts]

\* The same entry without its timestamp.
Untimed(entry) == [f \in DOMAIN entry \ {"timestamp"} |-> entry[f]]

\* The values under the i-th key: an entry with one of the timestamps, an
\* entry without timestamp, a value that is no JSON object.
LegacyValues(i) ==
    {LegacyEntry(i, ts) : ts \in LegacyTimestamps}
    \cup {Untimed(LegacyEntry(i, ISO(0)))}
    \cup {[scalar |-> "text"]}

\* The mappings of one sport: keys 1..n, for n up to max.
RECURSIVE LegacyMappings(_)
LegacyMappings(max) ==
    IF max = 0 THEN {<<>>}
    ELSE LegacyMappings(max - 1) \cup
         {Append(m, <<LegacyKey(max), v>>) :
             m \in {e \in LegacyMappings(max - 1) : Len(e) = max - 1},
             v \in LegacyValues(max)}

LegacyDocument(f1, football, nba) ==
    [state |-> "ok",
     data |-> [f1 |-> f1, football |-> football, nba |-> nba,
               metadata |-> [last_updated |-> ISO(0 - 1), version |-> "1.0"]]]

\* The file at the start: absent, not JSON, or a document of at most
\* MaxLegacy entries.
LegacyFiles ==
    {[state |-> "missing"], [state |-> "corrupt"]} \cup
    UNION {UNION {{LegacyDocument(a, b, c) :
                      c \in LegacyMappings(MaxLegacy - Len(a) - Len(b))} :
                  b \in LegacyMappings(MaxLegacy - Len(a))} :
           a \in LegacyMappings(MaxLegacy)}

InitLoad ==
    /\ cache_file \in LegacyFiles
    /\ now = 0
    /\ cache_data = _load_cache(cache_file, now)
    /\ call = [op |-> "restart", at |-> now]
    /\ threads = NoThreads

NextLoad ==
    \/ Restart
    \/ Tick
    \/ \E sport \in SportSet, cache_key \in StoredKeys(cache_data) :
          GetQueryResult(sport, cache_key)
    \/ \E sport \in SportSet, query_type \in StoreTypes :
          GetAvailableOptions(sport, query_type)

SpecLoad == InitLoad /\ [][NextLoad]_vars

-----------------------------------------------------------------------------
(* SpecParse: a text arrives at the /api/parse route and the QueryParser of *)
(* the process parses it.                                                   *)

\* The words of the texts: F1, 车手, 积分榜, 赛程, 湖人, 英超, 2023年, 第5轮,
\* 得分, 詹姆斯, 车队
Words ==
    {<<70, 49>>, <<36710, 25163>>, <<31215, 20998, 27036>>, <<36187, 31243>>,
     <<28246, 20154>>, <<33521, 36229>>, <<50, 48, 50, 51, 24180>>,
     <<31532, 53, 36718>>, <<24471, 20998>>, <<35449, 22982, 26031>>,
     <<36710, 38431>>}

RECURSIVE TextsUpTo(_)
TextsUpTo(n) ==
    IF n = 0 THEN {<<>>}
    ELSE TextsUpTo(n - 1) \cup {t \o w : t \in TextsUpTo(n - 1), w \in Words}

\* The route answers an empty text itself (line 150): the parser gets the others.
ParseTexts == TextsUpTo(MaxWords) \ {<<>>}

\* The request as the route receives it: data.get('text', '').
ParseRequest(text) == [op |-> "request", text |-> text]

\* query_parser.parse_query(text), its result handed to the caller.
ParseReturn(text, ret) ==
    /\ call' = [op |-> "parse", text |-> text, ret |-> ret]
    /\ UNCHANGED <<cache_data, cache_file, now, threads>>

ParseQuery(text) ==
    LET query_info == parse_query(text)
    IN  \E ret \in {query_info} : ParseReturn(text, ret)

InitParse ==
    /\ cache_file = [state |-> "missing"]
    /\ now = 0
    /\ cache_data = _load_cache(cache_file, now)
    /\ call \in {ParseRequest(text) : text \in ParseTexts}
    /\ threads = NoThreads

NextParse == \E text \in {call.text} : call.op = "request" /\ ParseQuery(text)

SpecParse == InitParse /\ [][NextParse]_vars


-----------------------------------------------------------------------------
(* SpecPlayers: NBA players are asked for, one query after the other, on a  *)
(* fresh installation.                                                      *)

\* 詹姆斯, 库里, 詹姆斯数据, 库里2023年
PlayerTexts ==
    { <<35449, 22982, 26031>>,
      <<24211, 37324>>,
      <<35449, 22982, 26031, 25968, 25454>>,
      <<24211, 37324, 50, 48, 50, 51, 24180>> }

\* The writes of these runs succeed, or open() fails and the file stays.
PlayerOutcomes == {"ok", "open_fail"}

\* What _query_nba_data can return for the query: the error of a system
\* without NBA client; for players with a player the dict made on the spot,
\* without a player or a team an error; else what the client returns.
_query_nba_data(query_type, params) ==
    {[success |-> FALSE, error |-> "NBA API not initialised"]} \cup
    (IF query_type = "players"
     THEN IF DictHas(params, "player")
          THEN {[success |-> TRUE, player |-> DictGet(params, "player")]}
          ELSE IF DictHas(params, "team") THEN ApiResults
          ELSE {[success |-> FALSE, error |-> "no team, no player"]}
     ELSE IF query_type = "player_stats" /\ ~DictHas(params, "player")
     THEN {[success |-> FALSE, error |-> "no player"]}
     ELSE ApiResults)

ProcessPlayerQuery(text) ==
    LET query_info == parse_query(text)
    IN  ProcessQueryText(text,
            _query_nba_data(query_info.query_type, query_info.parameters),
            PlayerOutcomes)

NextPlayers ==
    \/ \E text \in PlayerTexts : ProcessPlayerQuery(text)
    \/ \E cache_key \in StoredKeys(cache_data) : GetQueryResult("nba", cache_key)
    \/ Restart

SpecPlayers == Init /\ [][NextPlayers]_vars
-----------------------------------------------------------------------------
(* SpecWorkers: the request workers call store_query_result, clear_cache    *)
(* and get_available_options of the one QueryCache at the same time. The    *)
(* class takes no lock; a step is one statement of its methods, and one     *)
(* turn of the loop of get_available_options.                               *)

\* The calls of the workers: f1 standings of two years, clear_cache of f1 and
\* of everything, the listing of the f1 standings.
WorkerParams == {<<<<"year", 2023>>>>, <<<<"year", 2024>>>>}

WorkerClears == {"f1", None}

\* The worker can take a request.
Free(t) == threads[t].pc \in {"idle", "done"}

\* A worker inside get_available_options notes every listing that the call
\* would have given, had it run alone at some moment of its run.
Observe(ths, data) ==
    [t \in Threads |->
        IF ths[t].pc = "list"
        THEN [ths[t] EXCEPT !.seen = @ \cup
                 {get_available_options(data, ths[t].sport, ths[t].query_type, now)}]
        ELSE ths[t]]

\* clear_cache assigns a new dict (lines 263 and 266): an iterator over the
\* old dict of a sport keeps that dict, as it was.
Detach(ths, sport, data) ==
    [t \in Threads |->
        IF /\ ths[t].pc = "list"
           /\ ths[t].live
           /\ sport \in {None, "", ths[t].sport}
        THEN [ths[t] EXCEPT !.live = FALSE, !.dict = data[ths[t].sport]]
        ELSE ths[t]]

\* store_query_result, lines 116-132: the key, the entry, the assignment.
StoreAssign(data, sport, query_type, parameters, result_data, original_text, t) ==
    LET cache_key == _generate_cache_key(query_type, parameters)
        entry == CacheEntry(query_type, parameters, result_data, original_text, t)
        d1 == IF sport \in DOMAIN data THEN data ELSE (sport :> <<>>) @@ data
    IN  [d1 EXCEPT ![sport] = DictPut(@, cache_key, entry)]

\* clear_cache, lines 261-274: the assignment.
ClearAssign(data, sport, t) ==
    IF sport # None /\ sport # ""
    THEN IF sport \in DOMAIN data
         THEN [data EXCEPT ![sport] = <<>>]
         ELSE data
    ELSE EmptyCache(t)

\* A worker enters store_query_result and runs it up to the call of
\* _save_cache.
StoreUpdate(t, sport, query_type, parameters, result_data, original_text) ==
    /\ Free(t)
    /\ cache_data' = StoreAssign(cache_data, sport, query_type, parameters,
                                 result_data, original_text, now)
    /\ threads' = Observe(
           [threads EXCEPT ![t] =
               [pc |-> "save_open", op |-> "store", sport |-> sport,
                ret |-> StoreReturn(query_type, parameters)]],
           cache_data')
    /\ UNCHANGED <<cache_file, now, call>>

\* A worker enters clear_cache and runs it up to the call of _save_cache.
ClearUpdate(t, sport) ==
    /\ Free(t)
    /\ cache_data' = ClearAssign(cache_data, sport, now)
    /\ threads' = Observe(
           Detach([threads EXCEPT ![t] =
                      [pc |-> "save_open", op |-> "clear", sport |-> sport,
                       ret |-> None]],
                  sport, cache_data),
           cache_data')
    /\ UNCHANGED <<cache_file, now, call>>

\* _save_cache, lines 72-73: last_updated is set and open(..., 'w') empties
\* the file; an empty file is no JSON document.
SaveOpen(t) ==
    /\ threads[t].pc = "save_open"
    /\ cache_data' = SaveMemory(cache_data, now)
    /\ cache_file' = IF "metadata" \in DOMAIN cache_data
                     THEN [state |-> "corrupt"] ELSE cache_file
    /\ threads' = Observe(
           [threads EXCEPT ![t] =
               [@ EXCEPT !.pc = IF "metadata" \in DOMAIN cache_data
                                THEN "save_dump" ELSE "done"]],
           cache_data')
    /\ UNCHANGED <<now, call>>

\* _save_cache, line 74: json.dump puts the text of the document, as it is
\* in memory now, into the buffer of the worker's file object. The documents
\* of the workers are far shorter than the buffer, so nothing reaches the
\* file before the with block closes it.
SaveDump(t) ==
    /\ threads[t].pc = "save_dump"
    /\ threads' = [threads EXCEPT ![t] =
           [pc |-> "save_close", op |-> @.op, sport |-> @.sport, ret |-> @.ret,
            buf |-> JsonDocument(cache_data)]]
    /\ UNCHANGED <<cache_data, cache_file, now, call>>

\* The length of the text of a document of the workers: their entries differ
\* in the year only, so the text grows with the number of entries.
DocSize(doc) ==
    LET size(sport) == IF sport \in DOMAIN doc THEN Len(doc[sport]) ELSE 0
    IN  size("f1") + size("football") + size("nba")

\* The end of the with block of lines 73-74: close() writes the buffer from
\* the start of the file, over what the file holds. When another worker has
\* written a longer text since this worker emptied the file, the end of that
\* text stays behind this worker's text, and the file is no JSON document.
SaveClose(t) ==
    /\ threads[t].pc = "save_close"
    /\ cache_file' =
           IF cache_file.state = "ok"
              /\ DocSize(cache_file.data) > DocSize(threads[t].buf)
           THEN [state |-> "corrupt"]
           ELSE [state |-> "ok", data |-> threads[t].buf]
    /\ threads' = [threads EXCEPT ![t] =
           [pc |-> "done", op |-> @.op, sport |-> @.sport, ret |-> @.ret]]
    /\ UNCHANGED <<cache_data, now, call>>

\* A worker enters get_available_options: line 174 and the iterator of line
\* 175, which notes the size of the dict.
ListStart(t, sport, query_type) ==
    /\ Free(t)
    /\ threads' = Observe(
           [threads EXCEPT ![t] =
               IF sport \in DOMAIN cache_data /\ sport # "metadata"
               THEN [pc |-> "list", op |-> "list", sport |-> sport,
                     query_type |-> query_type, live |-> TRUE, dict |-> <<>>,
                     used |-> Len(cache_data[sport]), pos |-> 0,
                     options |-> <<>>, seen |-> {}]
               ELSE [pc |-> "done", op |-> "list", sport |-> sport,
                     query_type |-> query_type, result |-> <<>>,
                     seen |-> {get_available_options(cache_data, sport,
                                                     query_type, now)}]],
           cache_data)
    /\ UNCHANGED <<cache_data, cache_file, now, call>>

\* The dict that the worker's iterator walks.
IterDict(t) ==
    IF threads[t].live THEN cache_data[threads[t].sport] ELSE threads[t].dict

\* options.sort(...) and the return (lines 217-218); the except branch
\* (line 222) when the sort compares None.
SortOrRaise(options) ==
    IF Len(options) >= 2 /\ \E i \in 1..Len(options) :
                               "none" \in DOMAIN options[i].timestamp
    THEN <<>>
    ELSE SortOptions(options)

\* One turn of the loop of line 175. The iterator raises RuntimeError
\* ("dictionary changed size during iteration") when the size of its dict is
\* no longer the one it noted, and the except branch returns [] (line 222).
ListNext(t) ==
    LET l == threads[t]
        d == IterDict(t)
        return(result) == [pc |-> "done", op |-> "list", sport |-> l.sport,
                           query_type |-> l.query_type, result |-> result,
                           seen |-> l.seen]
    IN  /\ l.pc = "list"
        /\ threads' = [threads EXCEPT ![t] =
               IF Len(d) # l.used THEN return(<<>>)
               ELSE IF l.pos < Len(d)
               THEN [l EXCEPT !.pos = @ + 1,
                              !.options = @ \o CollectOptions(
                                  <<d[l.pos + 1]>>, l.sport, l.query_type, now)]
               ELSE return(SortOrRaise(l.options))]
        /\ UNCHANGED <<cache_data, cache_file, now, call>>

InitWorkers == Init

NextWorkers ==
    \/ \E t \in Threads, parameters \in WorkerParams :
          StoreUpdate(t, "f1", "standings", parameters,
                      [success |-> TRUE, data |-> "rows"], <<25490, 21517>>)
    \/ \E t \in Threads, sport \in WorkerClears : ClearUpdate(t, sport)
    \/ \E t \in Threads : SaveOpen(t)
    \/ \E t \in Threads : SaveDump(t)
    \/ \E t \in Threads : SaveClose(t)
    \/ \E t \in Threads : ListStart(t, "f1", "standings")
    \/ \E t \in Threads : ListNext(t)

SpecWorkers == InitWorkers /\ [][NextWorkers]_vars

-----------------------------------------------------------------------------
(* The properties                                                           *)

\* p and q hold the same values for league_id, team, year and round.
SameKeyValues(p, q) ==
    \A i \in 1..Len(KeyParams) :
        /\ DictHas(p, KeyParams[i]) <=> DictHas(q, KeyParams[i])
        /\ DictHas(p, KeyParams[i]) =>
               DictGet(p, KeyParams[i]) = DictGet(q, KeyParams[i])

\* A parameter that is none of the four.
OtherParams == {<<>>, <<<<"player", "Lewis Hamilton">>>>}

\* C1: the key that store_query_result returns depends only on the query type
\* and on the values of league_id, team, year and round: whatever ran before,
\* every parameters dict with the same values for these four names, in
\* whatever insertion order and with whatever other parameter, gets the key
\* that the call returned.
C1_KeyDependsOnFourValues ==
    call.op = "store" =>
        \A q \in ParamDicts, other \in OtherParams :
            /\ SameKeyValues(call.parameters, q \o other)
               => StoreReturn(call.query_type, q \o other) = call.ret
            /\ SameKeyValues(call.parameters, other \o q)
               => StoreReturn(call.query_type, other \o q) = call.ret

\* A store whose parameters came in the order year, league_id.
C1_Witness ==
    /\ call.op = "store"
    /\ call.parameters = <<<<"year", 2024>>, <<"league_id", 2021>>>>
    /\ call.ret = "standings_league_id_2021_year_2024"

\* C2: right after a store_query_result that returned key k,
\* get_query_result(sport, k) returns an entry whose result_data, parameters
\* and original_text are the stored ones and whose success is
\* result_data's success, False when result_data has none.
C2_StoreThenGet ==
    (call.op = "store" /\ call.ret # None) =>
        LET got == get_query_result(cache_data, call.sport, call.ret)
        IN  /\ got.found
            /\ got.value.result_data = call.result_data
            /\ got.value.parameters = call.parameters
            /\ got.value.original_text = call.original_text
            /\ got.value.success =
                   IF "success" \in DOMAIN call.result_data
                   THEN call.result_data.success ELSE FALSE

\* A store of a payload without success flag, read back with success False.
C2_Witness ==
    /\ call.op = "store"
    /\ call.ret # None
    /\ "success" \notin DOMAIN call.result_data
    /\ get_query_result(cache_data, call.sport, call.ret).found
    /\ ~get_query_result(cache_data, call.sport, call.ret).value.success

\* The state right after QueryCache() has loaded a document.
FreshLoad == call.op = "restart" /\ call.at = now /\ cache_file.state = "ok"

\* C3: right after a load of the persisted document, every entry whose
\* timestamp is older than 7 days is absent from the store, and every entry
\* whose timestamp is at most 7 days old is present with unchanged content.
C3_ExpiryAtLoad ==
    FreshLoad =>
        \A sport \in SportSet : \A i \in 1..Len(cache_file.data[sport]) :
            LET key == cache_file.data[sport][i][1]
                value == cache_file.data[sport][i][2]
            IN  (/\ IsDict(value)
                 /\ "timestamp" \in DOMAIN value
                 /\ Parseable(value.timestamp))
                => IF value.timestamp.iso < now - MaxAgeDays
                   THEN ~DictHas(cache_data[sport], key)
                   ELSE /\ DictHas(cache_data[sport], key)
                        /\ DictGet(cache_data[sport], key) = value

\* C4: right after a load, no entry without a timestamp that parses remains,
\* in any sport.
C4_NoEntryWithoutTimestamp ==
    FreshLoad =>
        \A sport \in SportSet : \A i \in 1..Len(cache_data[sport]) :
            LET value == cache_data[sport][i][2]
            IN  IsDict(value) =>
                    /\ "timestamp" \in DOMAIN value
                    /\ Parseable(value.timestamp)

\* C5: in every reachable state, every option of
\* get_available_options(sport, query_type) comes from an entry of that sport
\* whose query_type is the requested one and whose success is true.
C5_OptionsFromMatchingEntries ==
    \A sport \in RouteSports, query_type \in StoreTypes :
        LET options == get_available_options(cache_data, sport, query_type, now)
        IN  \A i \in 1..Len(options) :
                /\ DictHas(cache_data[sport], options[i].cache_key)
                /\ LET entry == DictGet(cache_data[sport], options[i].cache_key)
                   IN  /\ entry.query_type = query_type
                       /\ entry.success = TRUE
                       /\ entry.original_text = options[i].original_text
                       /\ entry.timestamp = options[i].timestamp

\* Football holds the standings and the schedule of one league; the standings
\* are listed, the schedule is not.
C5_Witness ==
    /\ Len(cache_data["football"]) = 2
    /\ Len(get_available_options(cache_data, "football", "standings", now)) = 1
    /\ \E i \in 1..Len(cache_data["f1"]) : ~cache_data["f1"][i][2].success

\* C6: get_query_result(sport, cache_key) returns None whenever sport is not
\* one of f1, football, nba or cache_key is not stored under that sport; it
\* never returns a value of the metadata record.
C6_GetAbsentWhenUnknown ==
    \A sport \in RouteSports, cache_key \in StoredKeys(cache_data) \cup {"version"} :
        (sport \notin SportSet \/ ~DictHas(cache_data[sport], cache_key))
            => get_query_result(cache_data, sport, cache_key) = NotFound

\* C7: clear_cache(sport) with one of the three sports empties that sport's
\* mapping and leaves the mappings of the other two as they were.
C7_ClearLeavesOtherSports ==
    [][\A sport \in SportSet :
          (call'.op = "clear" /\ call'.sport = sport)
              => /\ cache_data'[sport] = <<>>
                 /\ \A other \in SportSet \ {sport} :
                        cache_data'[other] = cache_data[other]]_vars

\* Football has just been cleared of its entries while nba holds one.
C7_Witness ==
    /\ call.op = "clear"
    /\ call.sport = "football"
    /\ call.held > 0
    /\ cache_data["football"] = <<>>
    /\ cache_data["nba"] # <<>>

\* C8: clear_cache(sport) is idempotent: the second of two calls in a row
\* leaves every sport's mapping as the first left it.
C8_ClearTwiceAsOnce ==
    [][\A sport \in SportSet :
          (/\ call.op = "clear" /\ call.sport = sport
           /\ call'.op = "clear" /\ call'.sport = sport)
              => \A d \in SportSet : cache_data'[d] = cache_data[d]]_vars

\* Football has been cleared twice in a row,
\* while f1 holds an entry.
C8_Witness ==
    /\ call.op = "clear"
    /\ call.sport = "football"
    /\ call.again
    /\ cache_data["football"] = <<>>
    /\ cache_data["f1"] # <<>>

\* C9: in every reachable state the top-level keys of the store are exactly
\* f1, football, nba and metadata, and metadata holds last_updated and
\* version.
C9_TopLevelKeys ==
    /\ DOMAIN cache_data = SportSet \cup {"metadata"}
    /\ {"last_updated", "version"} \subseteq DOMAIN cache_data["metadata"]


\* The text as parse_query looks at it.
Lowered(text) == Strip(Lower(text))

\* The text holds no keyword of a sport, no keyword of a query type, no year
\* and no round.
MatchesNothing(text) ==
    /\ \A i \in 1..Len(sport_keywords) : \A j \in 1..Len(sport_keywords[i][2]) :
           ~Contains(text, Lower(sport_keywords[i][2][j]))
    /\ \A i \in 1..Len(query_types) : \A j \in 1..Len(query_types[i][2]) :
           ~Contains(text, query_types[i][2][j])
    /\ YearMatch(text) = {}
    /\ RoundMatch(text) = {}

\* C11: parse_query returns a result dict for every text, and for a text that
\* holds no keyword of a sport, no keyword of a query type, no year and no
\* round the dict has sport None, query_type None, no parameters and
\* confidence 0.0.
C11_NoMatchAllUnset ==
    call.op = "parse" =>
        /\ DOMAIN call.ret =
               {"sport", "query_type", "parameters", "confidence", "original_text"}
        /\ MatchesNothing(Lowered(call.text)) =>
               /\ call.ret.sport = None
               /\ call.ret.query_type = None
               /\ call.ret.parameters = <<>>
               /\ call.ret.confidence = 0

\* A text of words that are no keywords (得分, twice) has been parsed.
C11_Witness ==
    /\ call.op = "parse"
    /\ call.text = <<24471, 20998, 24471, 20998>>
    /\ MatchesNothing(Lowered(call.text))
    /\ call.ret.confidence = 0

\* C12: a process_query_text whose parsed confidence is below 0.3 returns
\* success False with a suggestion, calls no client, and leaves the store and
\* its file as they were.
C12_RejectedLeavesCache ==
    [][(call'.op = "process" /\ call'.query_info.confidence < Threshold)
          => /\ call'.success = FALSE
             /\ "suggestion" \in DOMAIN call'
             /\ "data" \notin DOMAIN call'
             /\ call'.client = None
             /\ cache_data' = cache_data
             /\ cache_file' = cache_file]_vars

\* A text below the threshold has been rejected while the store holds
\* entries.
C12_Witness ==
    /\ call.op = "process"
    /\ call.query_info.confidence < Threshold
    /\ call.success = FALSE
    /\ TotalEntries(cache_data) > 0

\* C13: when a process_query_text of a text with confidence >= 0.3 has
\* returned, the client of the query's sport has been called, the returned
\* cache key is not None, and get_query_result(sport, that key) returns an
\* entry whose result_data is the result of the query.
C13_AcceptedIsStored ==
    (call.op = "process" /\ call.query_info.confidence >= Threshold) =>
        /\ call.success
        /\ call.client = call.query_info.sport
        /\ call.cache_key # None
        /\ LET got == get_query_result(cache_data, call.query_info.sport,
                                       call.cache_key)
           IN  /\ got.found
               /\ got.value.result_data = call.data

\* The worker has made its change to cache_data and has not yet finished
\* writing the file.
InMutation(t) == threads[t].pc \in {"save_open", "save_dump", "save_close"}

\* C14: store_query_result and clear_cache exclude each other: no two workers
\* are at the same time between their change of cache_data and the end of
\* their write of the file.
C14_MutualExclusion ==
    \A a, b \in Threads : a # b => ~(InMutation(a) /\ InMutation(b))

\* C15: a get_available_options that runs while other workers store or clear
\* returns a listing that the store would have given at some moment of the
\* call, before or after each change; it is not empty when the store held
\* matching successful entries all along.
C15_ReadsSeeWholeStores ==
    \A t \in Threads :
        (threads[t].pc = "done" /\ threads[t].op = "list")
            => threads[t].result \in threads[t].seen

\* The last call was a process_query_text that reached _save_cache, and the
\* write failed: the file is left without a document.
WriteFailedInStore ==
    /\ call.op = "process"
    /\ call.query_info.confidence >= Threshold
    /\ call.query_info.query_type # None
    /\ cache_file.state = "corrupt"

\* The queries for which get_available_options has a rule.
Listable(query_info) ==
    \/ query_info.sport = "f1" /\ query_info.query_type = "standings"
    \/ /\ query_info.sport = "football" /\ query_info.query_type = "standings"
       /\ DictHas(query_info.parameters, "league_id")
    \/ /\ query_info.sport = "nba" /\ query_info.query_type = "schedule"
       /\ DictHas(query_info.parameters, "team")

\* C16: when the write of the file fails inside store_query_result, the call
\* still returns the key, the entry is in memory, and get_query_result and
\* get_available_options of the same process serve it.
C16_WriteFailureSwallowed ==
    WriteFailedInStore =>
        /\ call.success
        /\ call.cache_key = _generate_cache_key(call.query_info.query_type,
                                                call.query_info.parameters)
        /\ LET got == get_query_result(cache_data, call.query_info.sport,
                                       call.cache_key)
           IN  /\ got.found
               /\ got.value.result_data = call.data
               /\ got.value.original_text = call.text
        /\ (Listable(call.query_info) /\ SuccessOf(call.data)) =>
               LET options == get_available_options(cache_data,
                                  call.query_info.sport,
                                  call.query_info.query_type, now)
               IN  \E i \in 1..Len(options) :
                       /\ options[i].cache_key = call.cache_key
                       /\ options[i].original_text = call.text

\* The f1 standings were stored while the write failed, and are listed.
C16_Witness ==
    /\ WriteFailedInStore
    /\ call.query_info.sport = "f1"
    /\ call.data.success
    /\ Len(get_available_options(cache_data, "f1", "standings", now)) = 1
    /\ get_query_result(cache_data, "f1", call.cache_key).found

\* The state right after QueryCache() has found a file that is no JSON
\* document.
CorruptLoad == call.op = "restart" /\ cache_file.state = "corrupt"

\* C17: a load of a file that cannot be read or parsed gives the empty store
\* (three empty mappings and a fresh metadata record), and the store works
\* afterwards: the entry of a store that follows is returned by
\* get_query_result.
C17_CorruptLoadsEmpty ==
    [][/\ (call'.op = "restart" /\ cache_file'.state = "corrupt")
              => cache_data' = EmptyCache(now')
       /\ (/\ CorruptLoad
           /\ call'.op = "process"
           /\ call'.query_info.confidence >= Threshold
           /\ call'.query_info.query_type # None)
              => LET got == get_query_result(cache_data', call'.query_info.sport,
                                             call'.cache_key)
                 IN  /\ call'.cache_key # None
                     /\ got.found
                     /\ got.value.result_data = call'.data
                     /\ TotalEntries(cache_data') =
                            IF call'.query_info.sport \in SportSet THEN 1 ELSE 0]_vars

\* The process has started on a file that is no JSON document and holds the
\* empty store.
C17_Witness ==
    /\ CorruptLoad
    /\ cache_data = EmptyCache(now)

\* C18: in get_available_options an entry that is no dict, or has no
\* timestamp, is skipped and does not empty the listing: every entry of the
\* sport that is a dict with a timestamp, matches the query type, is
\* successful and has an option under the rules is listed.
C18_BadEntrySkipped ==
    \A sport \in SportSet, query_type \in StoreTypes :
        LET options == get_available_options(cache_data, sport, query_type, now)
        IN  \A i \in 1..Len(cache_data[sport]) :
                LET cache_key == cache_data[sport][i][1]
                    value == cache_data[sport][i][2]
                IN  (/\ IsDict(value)
                     /\ "timestamp" \in DOMAIN value
                     /\ EntryMatches(value, query_type)
                     /\ EntryOptions(sport, query_type, cache_key, value, now) # <<>>)
                    => \E j \in 1..Len(options) : options[j].cache_key = cache_key

\* The place of a key in the dict.
PlaceOf(d, k) == CHOOSE i \in 1..Len(d) : d[i][1] = k

\* C19: the options of get_available_options come by timestamp, the most
\* recent first, and options of equal timestamp in the order in which the
\* sport's dict holds their entries.
C19_NewestFirstStable ==
    \A sport \in SportSet, query_type \in StoreTypes :
        LET options == get_available_options(cache_data, sport, query_type, now)
        IN  \A i, j \in 1..Len(options) :
                i < j =>
                    /\ options[i].timestamp.iso >= options[j].timestamp.iso
                    /\ options[i].timestamp.iso = options[j].timestamp.iso
                       => PlaceOf(cache_data[sport], options[i].cache_key)
                              < PlaceOf(cache_data[sport], options[j].cache_key)

\* The dict of f1 holds an older entry before a newer one, and the listing
\* gives the newer one first.
C19_Witness ==
    /\ Len(cache_data["f1"]) = 2
    /\ TimestampOf(cache_data["f1"][1][2]) = ISO(0 - MaxAgeDays)
    /\ TimestampOf(cache_data["f1"][2][2]) = ISO(0 - 1)
    /\ LET options == get_available_options(cache_data, "f1", "standings", now)
       IN  /\ Len(options) = 2
           /\ options[1].cache_key = cache_data["f1"][2][1]
           /\ options[2].cache_key = cache_data["f1"][1][1]

\* C20: whenever parse_query finds the sport f1 in a text that holds both
\* 车手 (drivers) and 积分榜 (standings), it returns query_type standings with
\* confidence >= 0.9, also when the text holds 车队 (constructors) and
\* whatever query type the keywords had given.
C20_DriversStandingsWins ==
    call.op = "parse" =>
        LET text == Lowered(call.text)
        IN  (/\ call.ret.sport = "f1"
             /\ Contains(text, <<36710, 25163>>)
             /\ Contains(text, <<31215, 20998, 27036>>))
            => /\ call.ret.query_type = "standings"
               /\ call.ret.confidence >= 9

\* 车队车手积分榜 has been parsed: the text holds the constructors word too.
C20_Witness ==
    /\ call.op = "parse"
    /\ call.text = <<36710, 38431, 36710, 25163, 31215, 20998, 27036>>
    /\ call.ret.sport = "f1"
    /\ call.ret.query_type = "standings"
    /\ call.ret.confidence = 9

\* The keyword counts of a text, entry by entry of the two tables.
SportScores(text) ==
    [i \in 1..Len(sport_keywords) |-> SportScore(sport_keywords[i][2], text)]

QueryScores(text) ==
    [i \in 1..Len(query_types) |-> QueryScore(query_types[i][2], text)]

\* key is the key of the first entry of the table that has the highest
\* score, which is positive; key is None when no entry scores.
FirstOfHighest(table, scores, key) ==
    IF \A i \in 1..Len(table) : scores[i] = 0 THEN key = None
    ELSE \E i \in 1..Len(table) :
            /\ table[i][1] = key
            /\ scores[i] > 0
            /\ \A j \in 1..Len(table) : scores[j] <= scores[i]
            /\ \A j \in 1..(i - 1) : scores[j] < scores[i]

\* One of the four special rules of parse_query assigns the query type.
SpecialRule(text, sport) ==
    \/ /\ DictHas(player_names, sport)
       /\ FirstAlias(DictGet(player_names, sport), text) # {}
    \/ /\ sport = "football"
       /\ Contains(text, <<23556, 25163>>) \/ Contains(text, <<36827, 29699>>)
    \/ /\ sport = "f1"
       /\ Contains(text, <<31215, 20998, 27036>>)
       /\ Contains(text, <<36710, 38431>>) \/ Contains(text, <<36710, 25163>>)

\* C21: the sport that parse_query returns is the first entry of
\* sport_keywords with the highest keyword count, never an entry with count
\* 0, and None when no entry counts; the same holds of the query type over
\* query_types when no special rule assigns it.
C21_FirstOfHighestCount ==
    call.op = "parse" =>
        LET text == Lowered(call.text)
        IN  /\ FirstOfHighest(sport_keywords, SportScores(text), call.ret.sport)
            /\ ~SpecialRule(text, call.ret.sport)
               => FirstOfHighest(query_types, QueryScores(text), call.ret.query_type)

\* 赛程积分榜 has been parsed: f1 and nba tie with one keyword each and f1, the
\* first of the table, is returned; schedule and standings tie and schedule,
\* the first, is returned.
C21_Witness ==
    /\ call.op = "parse"
    /\ call.text = <<36187, 31243, 31215, 20998, 27036>>
    /\ SportScores(Lowered(call.text)) = <<1, 1, 1>>
    /\ call.ret.sport = "f1"
    /\ call.ret.query_type = "schedule"

\* The text holds one of 得分, 数据, 统计, 表现, 平均, 场均.
HasStatWord(text) ==
    \/ Contains(text, <<24471, 20998>>) \/ Contains(text, <<25968, 25454>>)
    \/ Contains(text, <<32479, 35745>>) \/ Contains(text, <<34920, 29616>>)
    \/ Contains(text, <<24179, 22343>>) \/ Contains(text, <<22330, 22343>>)

\* The sport has a table of players and the text holds one of their names.
HasPlayerAlias(text, sport) ==
    /\ DictHas(player_names, sport)
    /\ \E i \in 1..Len(DictGet(player_names, sport)) :
           Contains(text, DictGet(player_names, sport)[i][1])

\* C22: whenever the sport found has a table of players and the text holds
\* one of their names, parse_query returns player_stats if the text holds a
\* statistic word and players otherwise, whatever the keywords had given,
\* and the confidence without the 0.4 of the parameters is at least 0.8.
C22_PlayerOverride ==
    call.op = "parse" =>
        LET text == Lowered(call.text)
        IN  HasPlayerAlias(text, call.ret.sport) =>
                /\ call.ret.query_type =
                       IF HasStatWord(text) THEN "player_stats" ELSE "players"
                /\ DictHas(call.ret.parameters, "player")
                /\ call.ret.confidence - 4 >= 8

\* 赛程詹姆斯得分 has been parsed: the keywords give schedule, the name and the
\* statistic word give player_stats.
C22_Witness ==
    /\ call.op = "parse"
    /\ call.text = <<36187, 31243, 35449, 22982, 26031, 24471, 20998>>
    /\ QueryScores(Lowered(call.text))[1] = 1
    /\ call.ret.sport = "nba"
    /\ call.ret.query_type = "player_stats"
    /\ call.ret.confidence = 12

\* 0.3 for a sport found plus 0.3 for a query type found by the keywords.
KeywordConfidence(text) ==
    (IF \E i \in 1..Len(sport_keywords) : SportScores(text)[i] > 0 THEN 3 ELSE 0)
    + (IF \E i \in 1..Len(query_types) : QueryScores(text)[i] > 0 THEN 3 ELSE 0)

\* The values that the special rules applying to the text raise the
\* confidence to.
RuleFloors(text, sport) ==
    (IF HasPlayerAlias(text, sport) THEN {8} ELSE {})
    \cup (IF /\ sport = "football"
             /\ Contains(text, <<23556, 25163>>) \/ Contains(text, <<36827, 29699>>)
          THEN {7} ELSE {})
    \cup (IF /\ sport = "f1"
             /\ Contains(text, <<31215, 20998, 27036>>)
             /\ Contains(text, <<36710, 38431>>) \/ Contains(text, <<36710, 25163>>)
          THEN {9} ELSE {})

\* C23: the confidence that parse_query returns is the keyword increments,
\* raised to the value of every special rule that applies, plus 0.4 exactly
\* when a parameter was found, once for any number of parameters; it lies
\* between 0.0 and 1.4 and is never below the keyword increments.
C23_ConfidenceSum ==
    call.op = "parse" =>
        LET text == Lowered(call.text)
            base == KeywordConfidence(text)
            levels == {base} \cup RuleFloors(text, call.ret.sport)
            before == CHOOSE v \in levels : \A w \in levels : w <= v
            bonus == IF Len(call.ret.parameters) > 0 THEN 4 ELSE 0
        IN  /\ call.ret.confidence = before + bonus
            /\ call.ret.confidence >= base + bonus
            /\ call.ret.confidence >= 0
            /\ call.ret.confidence <= 14

\* A text naming a Lakers player and a year has been parsed: three parameters
\* (year, player, team), one bonus, on top of the 0.8 of the player rule.
C23_Witness ==
    /\ call.op = "parse"
    /\ HasPlayerAlias(Lowered(call.text), "nba")
    /\ Len(call.ret.parameters) = 3
    /\ KeywordConfidence(Lowered(call.text)) = 3
    /\ call.ret.confidence = 12

\* No worker is inside store_query_result or clear_cache.
Quiescent == \A t \in Threads : ~InMutation(t)

\* C24: when no store_query_result and no clear_cache is running and no write
\* of the file has failed, the file that has been written holds a document
\* whose mappings of the sports are those of cache_data, whatever the order in
\* which the workers ran.
C24_FileHoldsMemory ==
    (Quiescent /\ cache_file.state # "missing") =>
        /\ cache_file.state = "ok"
        /\ \A i \in 1..Len(Sports) :
              /\ Sports[i] \in DOMAIN cache_file.data
              /\ cache_file.data[Sports[i]] = cache_data[Sports[i]]

\* get_available_options(sport, query_type) on the store `data` gives an
\* option for the key.
Listed(data, sport, query_type, cache_key, t) ==
    LET options == get_available_options(data, sport, query_type, t)
    IN  \E i \in 1..Len(options) : options[i].cache_key = cache_key

PlayerStored ==
    /\ call.op = "process"
    /\ call.success
    /\ DictHas(call.query_info.parameters, "player")

\* The names that the alias table of the NBA players gives.
PlayerValues ==
    {DictGet(player_names, "nba")[i][2] : i \in 1..Len(DictGet(player_names, "nba"))}

\* The key of the stored query is the key of the same query for any other
\* player, one entry of the sport has that key, and get_query_result on it
\* gives the payload and the parameters of this store.
KeyIgnoresPlayer ==
    LET query_info == call.query_info
        got == get_query_result(cache_data, query_info.sport, call.cache_key)
    IN  /\ \A name \in PlayerValues :
               StoreReturn(query_info.query_type,
                           DictPut(query_info.parameters, "player", name))
                   = call.cache_key
        /\ Cardinality({i \in 1..Len(cache_data[query_info.sport]) :
                           cache_data[query_info.sport][i][1] = call.cache_key}) = 1
        /\ got.found
        /\ got.value.result_data = call.data
        /\ got.value.parameters = query_info.parameters
        /\ got.value.original_text = call.text

\* C26 as stated: the key leaves the player out, the later store replaces the
\* earlier under it, get_query_result gives the latest payload only, and a
\* sport holds at most one players entry and at most one player_stats entry.
C26_KeyIgnoresPlayerOneEntry ==
    PlayerStored =>
        /\ KeyIgnoresPlayer
        /\ \A query_type \in {"players", "player_stats"} :
              Cardinality({i \in 1..Len(cache_data[call.query_info.sport]) :
                  cache_data[call.query_info.sport][i][2].query_type = query_type}) <= 1

\* C26, amended: the key leaves the player out, the later store replaces the
\* earlier under it, get_query_result gives the latest payload only, and a
\* sport holds at most one entry for a query type and the values of
\* league_id, team, year and round.
C26_KeyIgnoresPlayerOnePerKey ==
    PlayerStored =>
        /\ KeyIgnoresPlayer
        /\ LET entries == cache_data[call.query_info.sport]
           IN  \A i, j \in 1..Len(entries) :
                   (/\ entries[i][2].query_type = entries[j][2].query_type
                    /\ SameKeyValues(entries[i][2].parameters, entries[j][2].parameters))
                       => i = j

\* 库里 has been stored in memory under the key that holds 詹姆斯 in the
\* file, whose write did not take place this time.
C26_Witness ==
    /\ PlayerStored
    /\ call.cache_key = "players"
    /\ cache_data["nba"] # <<>>
    /\ DictGet(cache_data["nba"], "players").parameters = <<<<"player", "Stephen Curry">>>>
    /\ cache_file.state = "ok"
    /\ DictHas(cache_file.data["nba"], "players")
    /\ DictGet(cache_file.data["nba"], "players").parameters = <<<<"player", "LeBron James">>>>
    /\ Len(cache_data["nba"]) = Len(cache_file.data["nba"])

\* The aliases of a sport in an alias table that the text contains, as the
\* values they stand for.
AliasValues(names, sport, text) ==
    IF DictHas(names, sport)
    THEN {DictGet(names, sport)[i][2] :
             i \in {j \in 1..Len(DictGet(names, sport)) :
                       Contains(text, DictGet(names, sport)[j][1])}}
    ELSE {}

\* The text contains a keyword that only the i-th sport of sport_keywords
\* has.
HasOwnKeyword(text, i) ==
    \E k \in 1..Len(sport_keywords[i][2]) :
        /\ Contains(text, Lower(sport_keywords[i][2][k]))
        /\ \A j \in 1..Len(sport_keywords) : j # i =>
               \A l \in 1..Len(sport_keywords[j][2]) :
                   sport_keywords[j][2][l] # sport_keywords[i][2][k]

\* parse_query found nba and took the team or the player from an alias that
\* the text contains.
NbaWithTeamOrPlayer(text, ret) ==
    /\ ret.sport = "nba"
    /\ \/ /\ DictHas(ret.parameters, "team")
          /\ DictGet(ret.parameters, "team") \in AliasValues(team_names, "nba", text)
       \/ /\ DictHas(ret.parameters, "player")
          /\ DictGet(ret.parameters, "player") \in AliasValues(player_names, "nba", text)

\* C27 as stated: a text that contains an alias of an NBA team or player and
\* no keyword that only f1 or only football has is parsed as nba, with the
\* team or the player of the alias.
C27_NbaAliasGivesNba ==
    call.op = "parse" =>
        LET text == Lowered(call.text)
        IN  (/\ AliasValues(team_names, "nba", text)
                  \cup AliasValues(player_names, "nba", text) # {}
             /\ ~HasOwnKeyword(text, 1)
             /\ ~HasOwnKeyword(text, 2))
                => NbaWithTeamOrPlayer(text, call.ret)

\* C27, amended: a text that contains an alias of an NBA team or player and
\* more keywords of nba than of f1 and than of football is parsed as nba,
\* with the team or the player of an alias it contains.
C27_NbaAliasAndMostKeywords ==
    call.op = "parse" =>
        LET text == Lowered(call.text)
        IN  (/\ AliasValues(team_names, "nba", text)
                  \cup AliasValues(player_names, "nba", text) # {}
             /\ SportScores(text)[3] > SportScores(text)[1]
             /\ SportScores(text)[3] > SportScores(text)[2])
                => NbaWithTeamOrPlayer(text, call.ret)

\* 湖人赛程积分榜 has been parsed: 积分榜 counts for f1 and for football, 湖人
\* and 赛程 count for nba.
C27_Witness ==
    /\ call.op = "parse"
    /\ call.text = <<28246, 20154, 36187, 31243, 31215, 20998, 27036>>
    /\ SportScores(Lowered(call.text)) = <<1, 1, 2>>
    /\ call.ret.sport = "nba"
    /\ DictGet(call.ret.parameters, "team") = "Lakers"

\* C28: clear_cache with an argument that is none of the three sports (the
\* empty string and "metadata" among them) removes no entry of any sport and
\* leaves the version of the metadata record as it was.
C28_ClearOfNoSportKeepsAll ==
    [][(call'.op = "clear" /\ call'.sport \in (ClearSports \ SportSet) \ {None})
          => /\ \A d \in SportSet : cache_data'[d] = cache_data[d]
             /\ "version" \in DOMAIN cache_data["metadata"]
                => /\ "version" \in DOMAIN cache_data'["metadata"]
                   /\ cache_data'["metadata"].version = cache_data["metadata"].version]_vars

\* C29: a store or a clear whose write of the file fails leaves the document
\* of the last write that succeeded loadable: a load after it gives every
\* entry that a load before it would have given.
C29_FailedWriteKeepsDocument ==
    [][(/\ cache_file.state = "ok"
        /\ call'.op \in {"process", "clear"}
        /\ cache_file' # [state |-> "ok", data |-> JsonDocument(cache_data')])
          => LET before == _load_cache(cache_file, now')
                 after == _load_cache(cache_file', now')
             IN  \A d \in SportSet : \A i \in 1..Len(before[d]) :
                     \E j \in 1..Len(after[d]) : after[d][j] = before[d][i]]_vars

\* C30: for the F1 standings that process_query_text stored from a query
\* without a year, the option of get_available_options carries, in its value
\* and in its label, the season that the F1 client was asked for.
C30_OptionYearIsSeasonRequested ==
    (/\ call.op = "process"
     /\ call.success
     /\ call.query_info.sport = "f1"
     /\ call.query_info.query_type = "standings"
     /\ ~DictHas(call.query_info.parameters, "year")
     /\ SuccessOf(call.data))
        => LET options == get_available_options(cache_data, "f1", "standings", now)
               season == SeasonRequested(call.query_info.parameters)
           IN  \E i \in 1..Len(options) :
                   /\ options[i].cache_key = call.cache_key
                   /\ options[i].value = "f1_" \o ToString(season)
                   /\ options[i].label[1] = season
====
